---- MODULE Spec2Model ----
(***************************************************************************)
(* A model of the chunked array engine of zarr.v3: AsyncArray              *)
(* (src/zarr/v3/array.py) on top of BatchedCodecPipeline                   *)
(* (src/zarr/v3/codecs/batched_pipeline.py).                               *)
(*                                                                         *)
(* Arrays are of rank 1 and of dtype bool: an array is a sequence of       *)
(* booleans, element i (0-based) is at position i + 1.  A selection is one *)
(* contiguous range [start, stop).  The store is a function from the keys  *)
(* that are present to their values; a key is the tuple of its path        *)
(* segments, a value a sequence of bytes.                                  *)
(***************************************************************************)
EXTENDS Integers, Sequences, FiniteSets, TLC

\* ---------------------------------------------------------------- bounds
MaxLen == 3          \* largest array extent
MaxChunk == 2        \* largest chunk extent

\* the elements of dtype bool
Vals == BOOLEAN
None == <<>>
ZARR_JSON == <<"zarr.json">>

Min(a, b) == IF a < b THEN a ELSE b
Max(a, b) == IF a > b THEN a ELSE b
ceildiv(a, b) == (a + b - 1) \div b

\* ---------------------------------------------------- slices and arrays
Slice(a, b) == [start |-> a, stop |-> b]
SelLen(sel) == sel.stop - sel.start

\* arr[sel]
GetSlice(arr, sel) == SubSeq(arr, sel.start + 1, sel.stop)

\* arr[sel] = val
SetSlice(arr, sel, val) ==
  [i \in 1..Len(arr) |->
     IF sel.start < i /\ i <= sel.stop THEN val[i - sel.start] ELSE arr[i]]

\* np.empty(shape); fill(v)  /  np.zeros(shape)
Full(n, v) == [i \in 1..n |-> v]

\* np.all(arr == v)
AllEqual(arr, v) == \A i \in 1..Len(arr) : arr[i] = v

Arrays(n) == [1..n -> Vals]

\* ------------------------------------------------------------ the store
\* StorePath.get / set / delete / exists on a store given as a function
StoreGet(s, key) == IF key \in DOMAIN s THEN s[key] ELSE None
StoreSet(s, key, bytes) ==
  [k \in DOMAIN s \cup {key} |-> IF k = key THEN bytes ELSE s[k]]
StoreDelete(s, key) == [k \in DOMAIN s \ {key} |-> s[k]]
StoreExists(s, key) == key \in DOMAIN s

\* ------------------------------------------------------------- metadata
\* ChunkKeyEncoding "default": "c" sep i0 sep i1 ...
encode_chunk_key(chunk_coords) == <<"c">> \o chunk_coords

\* ArrayMetadata.get_chunk_spec: the chunk's shape is the grid's chunk
\* shape, also at the trailing edge
get_chunk_spec(metadata, chunk_coords) ==
  [shape |-> metadata.chunk_shape, dtype |-> metadata.data_type,
   fill_value |-> metadata.fill_value]

\* ArrayMetadata.to_bytes: the JSON document of the metadata
to_bytes(metadata) == [zarr_format |-> 3, node_type |-> "array"] @@ metadata

\* -------------------------------------------------------------- indexer
\* all_chunk_coords(shape, chunk_shape)
all_chunk_coords(shape, chunk_shape) ==
  { <<k>> : k \in 0..(ceildiv(shape, chunk_shape) - 1) }

\* a python slice normalised against the extent (slice.indices)
Normalize(sel, shape) == Slice(Min(sel.start, shape), Min(sel.stop, shape))

\* The triple of chunk k for the normalised range sel
ChunkProjection(k, sel, chunk_shape) ==
  LET lo == Max(sel.start, k * chunk_shape)
      hi == Min(sel.stop, (k + 1) * chunk_shape)
  IN  [chunk_coords    |-> <<k>>,
       chunk_selection |-> Slice(lo - k * chunk_shape, hi - k * chunk_shape),
       out_selection   |-> Slice(lo - sel.start, hi - sel.start)]

\* BasicIndexer(selection, shape, chunk_shape): the triples in chunk order
BasicIndexer(selection, shape, chunk_shape) ==
  LET sel   == Normalize(selection, shape)
      first == sel.start \div chunk_shape
      n     == IF sel.start < sel.stop
               THEN ceildiv(sel.stop, chunk_shape) - first ELSE 0
  IN  [j \in 1..n |-> ChunkProjection(first + j - 1, sel, chunk_shape)]

\* indexer.shape
IndexerShape(selection, shape) == SelLen(Normalize(selection, shape))

is_total_slice(item, shape) == item.start = 0 /\ item.stop = shape

\* --------------------------------------------------------------- codecs
\* The codec list of the array, partitioned: array-array codecs, the
\* array-bytes codec, bytes-bytes codecs.  create() defaults it to
\* [BytesCodec()].
DefaultCodecs == [aa |-> <<>>, ab |-> "bytes", bb |-> <<>>]

\* The codecs beside BytesCodec, each a small instance of its family:
\*   "flip"  array-array: the elements back to front
\*   "pad"   array-array: one more element (fill_value) at the end, so
\*           the spec it hands on has a longer shape
\*   "rev"   bytes-bytes: the bytes back to front
\*   "crc"   bytes-bytes: a check byte (the last byte again) at the end
ArrayArrayCodecs == {"flip", "pad"}
BytesBytesCodecs == {"rev", "crc"}

Reverse(xs) == [i \in 1..Len(xs) |-> xs[Len(xs) + 1 - i]]

\* Codec.resolve_metadata: the spec of what the codec puts out
resolve_metadata(codec, chunk_spec) ==
  IF codec = "pad"
  THEN [chunk_spec EXCEPT !.shape = @ + 1]
  ELSE chunk_spec

\* BytesCodec on dtype bool: one byte per element, 1 for True, 0 for False
BytesEncode(chunk_array, chunk_spec) ==
  [p \in 1..Len(chunk_array) |-> IF chunk_array[p] THEN 1 ELSE 0]

BytesDecode(chunk_bytes, chunk_spec) ==
  [i \in 1..chunk_spec.shape |-> chunk_bytes[i] # 0]

\* one chunk through one codec, with the spec of the codec's input side
CodecEncode(codec, chunk, chunk_spec) ==
  CASE codec = "bytes" -> BytesEncode(chunk, chunk_spec)
    [] codec = "flip"  -> Reverse(chunk)
    [] codec = "pad"   -> Append(chunk, chunk_spec.fill_value)
    [] codec = "rev"   -> Reverse(chunk)
    [] codec = "crc"   -> Append(chunk, chunk[Len(chunk)])

CodecDecode(codec, chunk, chunk_spec) ==
  CASE codec = "bytes" -> BytesDecode(chunk, chunk_spec)
    [] codec = "flip"  -> Reverse(chunk)
    [] codec = "pad"   -> SubSeq(chunk, 1, chunk_spec.shape)
    [] codec = "rev"   -> Reverse(chunk)
    [] codec = "crc"   -> SubSeq(chunk, 1, Len(chunk) - 1)

\* Codec.encode_batch / decode_batch: None stays None
encode_batch(codec, batch) ==
  [i \in DOMAIN batch |->
     IF batch[i][1] = None THEN None
     ELSE CodecEncode(codec, batch[i][1], batch[i][2])]

decode_batch(codec, batch) ==
  [i \in DOMAIN batch |->
     IF batch[i][1] = None THEN None
     ELSE CodecDecode(codec, batch[i][1], batch[i][2])]

zip(xs, ys) == [i \in DOMAIN xs |-> <<xs[i], ys[i]>>]

resolve_batched(codec, chunk_specs) ==
  [i \in DOMAIN chunk_specs |-> resolve_metadata(codec, chunk_specs[i])]

\* ------------------------------------------------------------- pipeline
\* The chunk specs of a batch
SpecsOf(batch_info) == [i \in DOMAIN batch_info |-> batch_info[i].chunk_spec]

\* _codecs_with_resolved_metadata_batched, the loop of lines 52-54 and
\* 62-64: every codec of the list with the specs it sees, and the specs
\* that leave the list
RECURSIVE WithSpecs(_, _)
WithSpecs(codec_list, chunk_specs) ==
  IF codec_list = <<>> THEN [pairs |-> <<>>, chunk_specs |-> chunk_specs]
  ELSE LET rest == WithSpecs(Tail(codec_list),
                             resolve_batched(Head(codec_list), chunk_specs))
       IN  [pairs       |-> <<<<Head(codec_list), chunk_specs>>>> \o rest.pairs,
            chunk_specs |-> rest.chunk_specs]

\* the computation of the specs that resolves nothing: every codec is
\* paired with the specs the pipeline was called with
codecs_with_resolved_metadata_batched_Unresolved(codecs, chunk_specs) ==
  [aa |-> [i \in DOMAIN codecs.aa |-> <<codecs.aa[i], chunk_specs>>],
   ab |-> <<codecs.ab, chunk_specs>>,
   bb |-> [i \in DOMAIN codecs.bb |-> <<codecs.bb[i], chunk_specs>>]]

codecs_with_resolved_metadata_batched(codecs, chunk_specs) ==
  LET aa == WithSpecs(codecs.aa, chunk_specs)
      bb == WithSpecs(codecs.bb, resolve_batched(codecs.ab, aa.chunk_specs))
  IN  [aa |-> aa.pairs,
       ab |-> <<codecs.ab, aa.chunk_specs>>,
       bb |-> bb.pairs]

\* decode_batched that visits the lists front to back
DecodeStages_Forward(resolved) ==
  resolved.bb \o <<resolved.ab>> \o resolved.aa

\* decode_batched, lines 124-137: the (codec, specs) pairs in the order
\* they are visited
DecodeStages(resolved) ==
  Reverse(resolved.bb) \o <<resolved.ab>> \o Reverse(resolved.aa)

\* one stage of decode_batched
decode_stage(pair, batch) == decode_batch(pair[1], zip(batch, pair[2]))

RECURSIVE DecodeFrom(_, _, _)
DecodeFrom(stages, k, batch) ==
  IF k > Len(stages) THEN batch
  ELSE DecodeFrom(stages, k + 1, decode_stage(stages[k], batch))

decode_batched(codecs, chunk_bytes_batch, chunk_specs) ==
  LET resolved == codecs_with_resolved_metadata_batched(codecs, chunk_specs)
  IN  DecodeFrom(DecodeStages(resolved), 1, chunk_bytes_batch)

\* encode_batched, lines 159-174: the codecs in the order they are visited
EncodeStages(codecs) == codecs.aa \o <<codecs.ab>> \o codecs.bb

\* one stage of encode_batched: the batch goes through the codec, then the
\* specs are resolved for the next stage
encode_stage(codec, batch, chunk_specs) ==
  [batch       |-> encode_batch(codec, zip(batch, chunk_specs)),
   chunk_specs |-> resolve_batched(codec, chunk_specs)]

RECURSIVE EncodeFrom(_, _, _, _)
EncodeFrom(stages, k, batch, chunk_specs) ==
  IF k > Len(stages) THEN batch
  ELSE LET r == encode_stage(stages[k], batch, chunk_specs)
       IN  EncodeFrom(stages, k + 1, r.batch, r.chunk_specs)

encode_batched(codecs, chunk_array_batch, chunk_specs) ==
  EncodeFrom(EncodeStages(codecs), 1, chunk_array_batch, chunk_specs)

\* read_batched that leaves out as allocated where the chunk is absent
RECURSIVE ScatterOut_NoFill(_, _, _, _)
ScatterOut_NoFill(outbuf, chunk_array_batch, batch_info, i) ==
  IF i > Len(batch_info) THEN outbuf
  ELSE LET item == batch_info[i]
           next == IF chunk_array_batch[i] # None
                   THEN SetSlice(outbuf, item.out_selection,
                                 GetSlice(chunk_array_batch[i], item.chunk_selection))
                   ELSE outbuf
       IN  ScatterOut_NoFill(next, chunk_array_batch, batch_info, i + 1)

\* read_batched, lines 102-109: the decoded chunks land in out
RECURSIVE ScatterOut(_, _, _, _)
ScatterOut(outbuf, chunk_array_batch, batch_info, i) ==
  IF i > Len(batch_info) THEN outbuf
  ELSE LET item == batch_info[i]
           part == IF chunk_array_batch[i] # None
                   THEN GetSlice(chunk_array_batch[i], item.chunk_selection)
                   ELSE Full(SelLen(item.out_selection), item.chunk_spec.fill_value)
       IN  ScatterOut(SetSlice(outbuf, item.out_selection, part),
                      chunk_array_batch, batch_info, i + 1)

\* read_batched that pairs the bytes with the work items back to front
ReadFinish_Reversed(codecs, chunk_bytes_batch, batch_info, outbuf) ==
  ScatterOut(outbuf,
             decode_batched(codecs,
                            [i \in DOMAIN batch_info |->
                               chunk_bytes_batch[Len(batch_info) + 1 - i]],
                            SpecsOf(batch_info)),
             batch_info, 1)

\* read_batched once the store's answers are in
ReadFinish(codecs, chunk_bytes_batch, batch_info, outbuf) ==
  ScatterOut(outbuf,
             decode_batched(codecs, chunk_bytes_batch, SpecsOf(batch_info)),
             batch_info, 1)

\* concurrent_map(items, fn, limit): the results of the completed
\* invocations, in input order whatever the order they completed in
concurrent_map(completed) ==
  [i \in 1..Len(completed) |->
     completed[CHOOSE j \in DOMAIN completed : completed[j].index = i].result]

\* read_batched with the store at rest: every key is read from s
read_batched(codecs, batch_info, outbuf, s) ==
  ReadFinish(codecs,
             concurrent_map([i \in DOMAIN batch_info |->
                               [index  |-> i,
                                result |-> StoreGet(s, batch_info[i].store_path)]]),
             batch_info, outbuf)

\* every key is read, whatever the chunk_selection
ReadArg_Always(item) == item.store_path

\* write_batched, lines 216-219: what _read_key is called with
ReadArg(item) ==
  IF is_total_slice(item.chunk_selection, item.chunk_spec.shape)
  THEN None ELSE item.store_path

_read_key(s, store_path) ==
  IF store_path = None THEN None ELSE StoreGet(s, store_path)

\* _merge_chunk_array that starts from a fill-value buffer also when the
\* chunk exists
merge_chunk_array_NoExisting(existing_chunk_array, new_chunk_array_slice, chunk_spec, chunk_selection) ==
  IF is_total_slice(chunk_selection, chunk_spec.shape)
  THEN new_chunk_array_slice
  ELSE SetSlice(Full(chunk_spec.shape, chunk_spec.fill_value), chunk_selection,
                new_chunk_array_slice)

_merge_chunk_array(existing_chunk_array, new_chunk_array_slice, chunk_spec, chunk_selection) ==
  IF is_total_slice(chunk_selection, chunk_spec.shape)
  THEN new_chunk_array_slice
  ELSE LET chunk_array == IF existing_chunk_array = None
                          THEN Full(chunk_spec.shape, chunk_spec.fill_value)
                          ELSE existing_chunk_array
       IN  SetSlice(chunk_array, chunk_selection, new_chunk_array_slice)

\* write_batched, lines 250-255
MergeBatch(chunk_array_batch, batch_info, value) ==
  [i \in DOMAIN batch_info |->
     _merge_chunk_array(chunk_array_batch[i],
                        GetSlice(value, batch_info[i].out_selection),
                        batch_info[i].chunk_spec,
                        batch_info[i].chunk_selection)]

\* the elision with np.any in place of np.all
ElideBatch_Any(chunk_array_batch, batch_info) ==
  [i \in DOMAIN batch_info |->
     IF \E p \in 1..Len(chunk_array_batch[i]) :
          chunk_array_batch[i][p] = batch_info[i].chunk_spec.fill_value
     THEN None ELSE chunk_array_batch[i]]

\* the elision that compares with zero in place of fill_value
ElideBatch_Zero(chunk_array_batch, batch_info) ==
  [i \in DOMAIN batch_info |->
     IF AllEqual(chunk_array_batch[i], FALSE)
     THEN None ELSE chunk_array_batch[i]]

\* no elision at all
ElideBatch_Never(chunk_array_batch, batch_info) == chunk_array_batch

\* write_batched, lines 257-260
ElideBatch(chunk_array_batch, batch_info) ==
  [i \in DOMAIN batch_info |->
     IF AllEqual(chunk_array_batch[i], batch_info[i].chunk_spec.fill_value)
     THEN None ELSE chunk_array_batch[i]]

\* write_batched, lines 223-268: from the bytes read to the bytes to write
WriteCompute(codecs, chunk_bytes_batch, batch_info, value) ==
  LET specs   == SpecsOf(batch_info)
      decoded == decode_batched(codecs, chunk_bytes_batch, specs)
      merged  == MergeBatch(decoded, batch_info, value)
      elided  == ElideBatch(merged, batch_info)
  IN  encode_batched(codecs, elided, specs)

\* _write_key that leaves a key alone once it is there
write_key_KeepExisting(s, store_path, chunk_bytes) ==
  IF chunk_bytes = None THEN StoreDelete(s, store_path)
  ELSE IF StoreExists(s, store_path) THEN s
  ELSE StoreSet(s, store_path, chunk_bytes)

\* _write_key on a store that keeps one chunk: a set drops every other
\* chunk key
write_key_Exclusive(s, store_path, chunk_bytes) ==
  IF chunk_bytes = None THEN StoreDelete(s, store_path)
  ELSE StoreSet([k \in {ZARR_JSON} \cap DOMAIN s |-> s[k]], store_path, chunk_bytes)

\* _write_key that deletes nothing
write_key_NoDelete(s, store_path, chunk_bytes) ==
  IF chunk_bytes = None THEN s
  ELSE StoreSet(s, store_path, chunk_bytes)

_write_key(s, store_path, chunk_bytes) ==
  IF chunk_bytes = None THEN StoreDelete(s, store_path)
  ELSE StoreSet(s, store_path, chunk_bytes)

RECURSIVE WriteKeys(_, _, _, _)
WriteKeys(s, chunk_bytes_batch, batch_info, i) ==
  IF i > Len(batch_info) THEN s
  ELSE WriteKeys(_write_key(s, batch_info[i].store_path, chunk_bytes_batch[i]),
                 chunk_bytes_batch, batch_info, i + 1)

\* write_batched whose first bounded map hands its results back in
\* reverse order
write_batched_Reversed(codecs, batch_info, value, s) ==
  LET n == Len(batch_info)
      chunk_bytes_batch ==
        [i \in DOMAIN batch_info |-> _read_key(s, ReadArg(batch_info[n + 1 - i]))]
  IN  WriteKeys(s, WriteCompute(codecs, chunk_bytes_batch, batch_info, value),
                batch_info, 1)

\* write_batched with no other call running
write_batched(codecs, batch_info, value, s) ==
  LET chunk_bytes_batch ==
        concurrent_map([i \in DOMAIN batch_info |->
                          [index  |-> i,
                           result |-> _read_key(s, ReadArg(batch_info[i]))]])
  IN  WriteKeys(s, WriteCompute(codecs, chunk_bytes_batch, batch_info, value),
                batch_info, 1)

\* ---------------------------------------- write_batched, step by step
\* A codec list whose array-bytes codec can encode a part of a chunk into
\* the store by itself (the sharding codec), and nothing else in the list
ShardingCodecs == [aa |-> <<>>, ab |-> "sharding", bb |-> <<>>]

\* CodecPipeline.supports_partial_encode
supports_partial_encode(codecs) ==
  codecs.ab = "sharding" /\ codecs.aa = <<>> /\ codecs.bb = <<>>

\* entries of a partial encode in which the pipeline has looked for
\* fill_value: an all-fill part is handed on as None
PartialEntries_Elided(batch_info, value) ==
  [i \in DOMAIN batch_info |->
     [store_path      |-> batch_info[i].store_path,
      chunk_array     |-> IF AllEqual(GetSlice(value, batch_info[i].out_selection),
                                      batch_info[i].chunk_spec.fill_value)
                          THEN None
                          ELSE GetSlice(value, batch_info[i].out_selection),
      chunk_selection |-> batch_info[i].chunk_selection,
      chunk_spec      |-> batch_info[i].chunk_spec]]

\* write_batched, lines 201-204: what encode_partial_batched is called with
PartialEntries(batch_info, value) ==
  [i \in DOMAIN batch_info |->
     [store_path      |-> batch_info[i].store_path,
      chunk_array     |-> GetSlice(value, batch_info[i].out_selection),
      chunk_selection |-> batch_info[i].chunk_selection,
      chunk_spec      |-> batch_info[i].chunk_spec]]

\* the array-bytes codec's encode_partial_batched: every entry is merged
\* into what the store holds for its chunk and stored, by the codec
RECURSIVE CodecEncodePartial(_, _, _)
CodecEncodePartial(s, entries, i) ==
  IF i > Len(entries) THEN s
  ELSE LET e        == entries[i]
           existing == IF StoreExists(s, e.store_path)
                       THEN BytesDecode(s[e.store_path], e.chunk_spec)
                       ELSE Full(e.chunk_spec.shape, e.chunk_spec.fill_value)
           merged   == IF e.chunk_array = None THEN existing
                       ELSE SetSlice(existing, e.chunk_selection, e.chunk_array)
       IN  CodecEncodePartial(StoreSet(s, e.store_path,
                                       BytesEncode(merged, e.chunk_spec)),
                              entries, i + 1)

\* BatchedCodecPipeline.encode_partial_batched: the codec does it all
encode_partial_batched(codecs, entries, s) == CodecEncodePartial(s, entries, 1)

\* _read_key behind which a failing get counts as an absent key
ReadKeyOutcome_Swallowed(s, store_path, fails) ==
  [raised |-> FALSE,
   value  |-> IF fails THEN None ELSE _read_key(s, store_path)]

\* write_batched, lines 210-222: what one awaited _read_key comes to when
\* the store's get fails or not; nothing catches the error
ReadKeyOutcome(s, store_path, fails) ==
  [raised |-> fails,
   value  |-> IF fails THEN None ELSE _read_key(s, store_path)]

\* --------------------------------------------------------- array engine
\* the work items without the last triple of the indexer
BatchInfo_DropLast(metadata, selection) ==
  LET indexer == BasicIndexer(selection, metadata.shape, metadata.chunk_shape)
  IN  [i \in 1..(Len(indexer) - 1) |->
         [store_path      |-> encode_chunk_key(indexer[i].chunk_coords),
          chunk_spec      |-> get_chunk_spec(metadata, indexer[i].chunk_coords),
          chunk_selection |-> indexer[i].chunk_selection,
          out_selection   |-> indexer[i].out_selection]]

\* getitem / setitem, the work items built from the indexer
BatchInfo(metadata, selection) ==
  LET indexer == BasicIndexer(selection, metadata.shape, metadata.chunk_shape)
  IN  [i \in DOMAIN indexer |->
         [store_path      |-> encode_chunk_key(indexer[i].chunk_coords),
          chunk_spec      |-> get_chunk_spec(metadata, indexer[i].chunk_coords),
          chunk_selection |-> indexer[i].chunk_selection,
          out_selection   |-> indexer[i].out_selection]]

\* AsyncArray.getitem
getitem(metadata, selection, s) ==
  read_batched(metadata.codecs, BatchInfo(metadata, selection),
               Full(IndexerShape(selection, metadata.shape), FALSE), s)

\* AsyncArray.setitem: the store it leaves
setitem(metadata, selection, value, s) ==
  write_batched(metadata.codecs, BatchInfo(metadata, selection), value, s)

\* AsyncArray.resize: the keys deleted, then the new metadata document
RECURSIVE DeleteKeys(_, _)
DeleteKeys(s, keys) ==
  IF keys = {} THEN s
  ELSE LET k == CHOOSE x \in keys : TRUE
       IN  DeleteKeys(StoreDelete(s, k), keys \ {k})

\* resize that deletes the key of every chunk of the old grid
ResizeDeleted_AllOld(metadata, new_shape) ==
  { encode_chunk_key(c) : c \in all_chunk_coords(metadata.shape, metadata.chunk_shape) }

ResizeDeleted(metadata, new_shape) ==
  LET old_chunk_coords == all_chunk_coords(metadata.shape, metadata.chunk_shape)
      new_chunk_coords == all_chunk_coords(new_shape, metadata.chunk_shape)
  IN  { encode_chunk_key(c) : c \in old_chunk_coords \ new_chunk_coords }

resize(metadata, new_shape, delete_outside_chunks, s) ==
  LET new_metadata == [metadata EXCEPT !.shape = new_shape]
      s1 == IF delete_outside_chunks
            THEN DeleteKeys(s, ResizeDeleted(metadata, new_shape)) ELSE s
  IN  [metadata |-> new_metadata,
       store    |-> StoreSet(s1, ZARR_JSON, to_bytes(new_metadata))]

\* create that does not look at the metadata key
create_Unchecked(s, shape, chunk_shape, fill_value, attributes, exists_ok) ==
  LET metadata ==
        [shape |-> shape, data_type |-> "bool", chunk_shape |-> chunk_shape,
         fill_value |-> IF fill_value = None THEN FALSE ELSE fill_value[1],
         codecs |-> DefaultCodecs, attributes |-> attributes]
  IN  [raised |-> "none",
       store |-> StoreSet(s, ZARR_JSON, to_bytes(metadata)),
       metadata |-> metadata]

\* AsyncArray.create, lines 90-125: the assert on the metadata key, the
\* defaults, the metadata document saved.  fill_value is None or <<v>>.
create(s, shape, chunk_shape, fill_value, attributes, exists_ok) ==
  IF ~exists_ok /\ StoreExists(s, ZARR_JSON)
  THEN [raised |-> "AssertionError", store |-> s, metadata |-> None]
  ELSE LET metadata ==
             [shape |-> shape, data_type |-> "bool", chunk_shape |-> chunk_shape,
              fill_value |-> IF fill_value = None THEN FALSE ELSE fill_value[1],
              codecs |-> DefaultCodecs, attributes |-> attributes]
       IN  [raised |-> "none",
            store |-> StoreSet(s, ZARR_JSON, to_bytes(metadata)),
            metadata |-> metadata]

\* update_attributes that reads the document back from the store and
\* replaces the attributes in it
update_attributes_Reread(metadata, new_attributes, s) ==
  LET doc == StoreGet(s, ZARR_JSON)
      new_metadata == [metadata EXCEPT !.shape = doc.shape,
                                       !.attributes = new_attributes]
  IN  [metadata |-> new_metadata,
       store    |-> StoreSet(s, ZARR_JSON, to_bytes(new_metadata))]

\* AsyncArray.update_attributes, lines 302-305
update_attributes(metadata, new_attributes, s) ==
  LET new_metadata == [metadata EXCEPT !.attributes = new_attributes]
  IN  [metadata |-> new_metadata,
       store    |-> StoreSet(s, ZARR_JSON, to_bytes(new_metadata))]

\* an update in place: the object the call was made on gets the new
\* metadata and is returned
replace_InPlace(objects, h, new_metadata) ==
  [objects |-> [objects EXCEPT ![h].metadata = new_metadata], handle |-> h]

\* dataclasses.replace(self, metadata=new_metadata), lines 299 and 306: a
\* new object beside the ones there are
replace(objects, h, new_metadata) ==
  [objects |-> Append(objects, [objects[h] EXCEPT !.metadata = new_metadata]),
   handle  |-> Len(objects) + 1]

\* ================================================================ state
VARIABLES
  store,      \* the key-value store: present keys |-> value
  self,       \* the AsyncArray in hand: [metadata |-> ArrayMetadata]
  result,     \* what the last call returned (None when it returns nothing)
  last,       \* the last call: its name and arguments
  ref,        \* a dense array that received the same assignments since
              \* create(); None once the array was resized
  task,       \* the calls that run concurrently: task |-> its progress
  writer,     \* chunk key |-> the task whose set or delete of it came last
  pipe,       \* an encode_batched / decode_batched call, stage by stage
  instances,  \* the AsyncArray objects made so far, by handle
  wb          \* a write_batched call, store operation by store operation

vars == <<store, self, result, last, ref, task, writer, pipe, instances, wb>>

Tasks == {1, 2}

\* a task that runs no call
IdleTask ==
  [pc |-> "idle", op |-> "none", selection |-> Slice(0, 0), value |-> None,
   pending |-> {}, completed |-> <<>>, towrite |-> <<>>, seen |-> <<>>,
   reordered |-> FALSE, out |-> None]

\* no codec pipeline call, no write_batched call under way
IdlePipe == [dir |-> "idle"]
IdleWrite == [pc |-> "idle"]

Shapes == 1..MaxLen
ChunkShapes == 1..MaxChunk

\* the selections a caller passes for an array of the given extent:
\* slices that start inside it; a stop past the end is clamped
Selections(shape) ==
  { Slice(a, b) : a \in 0..(shape - 1), b \in 1..MaxLen } \cap
  { sel \in [start : 0..MaxLen, stop : 0..MaxLen] : sel.start < sel.stop }

FullSelection == Slice(0, MaxLen)

Call(op, selection, value, shape, delete_outside_chunks) ==
  [op |-> op, selection |-> selection, value |-> value, shape |-> shape,
   delete_outside_chunks |-> delete_outside_chunks]

\* AsyncArray.create on an empty store, exists_ok = False
Create(shape, chunk_shape, fill_value) ==
  LET metadata == [shape |-> shape, data_type |-> "bool",
                   chunk_shape |-> chunk_shape, fill_value |-> fill_value,
                   codecs |-> DefaultCodecs, attributes |-> <<>>]
  IN  /\ self = [metadata |-> metadata]
      /\ store = StoreSet(<<>>, ZARR_JSON, to_bytes(metadata))
      /\ result = None
      /\ last = Call("create", Slice(0, 0), None, shape, FALSE)
      /\ ref = Full(shape, fill_value)
      /\ task = [t \in Tasks |-> IdleTask]
      /\ writer = <<>>
      /\ pipe = IdlePipe
      /\ instances = <<>>
      /\ wb = IdleWrite

Init ==
  \E shape \in Shapes, chunk_shape \in ChunkShapes, fill_value \in Vals :
    Create(shape, chunk_shape, fill_value)

\* await array.setitem(selection, value)
SetItem ==
  \E selection \in Selections(self.metadata.shape) :
    \E value \in Arrays(IndexerShape(selection, self.metadata.shape)) :
      LET sel  == Normalize(selection, self.metadata.shape)
          call == Call("setitem", sel, value, self.metadata.shape, FALSE)
      IN  /\ store' = setitem(self.metadata, selection, value, store)
          /\ result' = None
          /\ last' = call
          /\ ref' = IF ref = None THEN None ELSE SetSlice(ref, sel, value)
          /\ UNCHANGED <<self, task, writer, pipe, instances, wb>>

\* await array.getitem(selection); the call record keeps the value of a
\* whole-array setitem that came right before it
GetItem ==
  \E selection \in Selections(self.metadata.shape) :
    LET sel     == Normalize(selection, self.metadata.shape)
        written == IF last.op = "setitem" /\ SelLen(last.selection) = self.metadata.shape
                   THEN last.value ELSE None
    IN  /\ result' = getitem(self.metadata, selection, store)
        /\ last' = Call("getitem", sel, written, self.metadata.shape, FALSE)
        /\ UNCHANGED <<store, self, ref, task, writer, pipe, instances, wb>>

\* array = await array.resize(new_shape, delete_outside_chunks)
Resize ==
  \E new_shape \in Shapes, delete_outside_chunks \in BOOLEAN :
    LET r == resize(self.metadata, new_shape, delete_outside_chunks, store)
    IN  /\ store' = r.store
        /\ self' = [self EXCEPT !.metadata = r.metadata]
        /\ result' = None
        /\ last' = Call("resize", Slice(0, 0), None, self.metadata.shape,
                        delete_outside_chunks)
        /\ ref' = None
        /\ UNCHANGED <<task, writer, pipe, instances, wb>>

Next == SetItem \/ GetItem \/ Resize

Spec == Init /\ [][Next]_vars

\* ------------------------------------------------- concurrent calls
\* Two calls on one array, each a getitem or a setitem, run as tasks of
\* the event loop: every store operation is a step of its own, and the
\* store operations of a bounded map complete in any order.

\* the work items of a task's call
TaskBatch(t) == BatchInfo(self.metadata, task[t].selection)

\* the value a task passes: None for a getitem, an array for a setitem.
\* The task that starts first writes; the arrays are the uniform ones.
TaskValues(t, n) ==
  (IF t = 1 THEN {} ELSE {None}) \cup { Full(n, v) : v \in Vals }

\* the call starts: the indexer is built, the first bounded map is entered
\* (the tasks are alike: task 1 is the one that starts first)
Begin(t) ==
  /\ task[t].pc = "idle"
  /\ \A u \in Tasks : u < t => task[u].pc # "idle"
  /\ \E selection \in Selections(self.metadata.shape) :
       \E value \in TaskValues(t, IndexerShape(selection, self.metadata.shape)) :
         task' = [task EXCEPT ![t] =
                    [IdleTask EXCEPT
                       !.pc = "read",
                       !.op = IF value = None THEN "getitem" ELSE "setitem",
                       !.selection = Normalize(selection, self.metadata.shape),
                       !.value = value,
                       !.pending = DOMAIN BatchInfo(self.metadata, selection)]]
  /\ UNCHANGED <<store, self, result, last, ref, writer, pipe, instances, wb>>

\* the call of a task once its reads are in: getitem fills out and
\* returns, setitem merges, encodes and enters the second bounded map
AfterReads(t, completed) ==
  LET chunk_bytes_batch == concurrent_map(completed)
      codecs == self.metadata.codecs
  IN  IF task[t].op = "getitem"
      THEN [task[t] EXCEPT
              !.pc = "done", !.pending = {}, !.completed = <<>>,
              !.out = ReadFinish(codecs, chunk_bytes_batch, TaskBatch(t),
                                 Full(SelLen(task[t].selection), FALSE))]
      ELSE [task[t] EXCEPT
              !.pc = "write", !.pending = DOMAIN TaskBatch(t),
              !.completed = <<>>,
              !.towrite = WriteCompute(codecs, chunk_bytes_batch, TaskBatch(t),
                                       task[t].value)]

\* one invocation of the first bounded map completes: store_path.get() of
\* read_batched, _read_key of write_batched
ReadOne(t, i) ==
  /\ task[t].pc = "read" /\ i \in task[t].pending
  /\ LET item == TaskBatch(t)[i]
         res  == IF task[t].op = "getitem"
                 THEN StoreGet(store, item.store_path)
                 ELSE _read_key(store, ReadArg(item))
         completed == Append(task[t].completed, [index |-> i, result |-> res])
         seen == StoreSet(task[t].seen, item.store_path, res)
         reordered == task[t].reordered \/ \E j \in task[t].pending : j < i
     IN  task' = [task EXCEPT ![t] =
                    IF task[t].pending = {i}
                    THEN [AfterReads(t, completed) EXCEPT
                            !.seen = seen, !.reordered = reordered]
                    ELSE [task[t] EXCEPT !.pending = @ \ {i},
                                         !.completed = completed,
                                         !.seen = seen,
                                         !.reordered = reordered]]
  /\ UNCHANGED <<store, self, result, last, ref, writer, pipe, instances, wb>>

\* one invocation of the second bounded map of write_batched completes
WriteOne(t, i) ==
  /\ task[t].pc = "write" /\ i \in task[t].pending
  /\ LET item == TaskBatch(t)[i]
     IN  /\ store' = _write_key(store, item.store_path, task[t].towrite[i])
         /\ writer' = StoreSet(writer, item.store_path, t)
  /\ task' = [task EXCEPT ![t] =
                [@ EXCEPT !.pending = @ \ {i},
                          !.pc = IF task[t].pending = {i} THEN "done" ELSE "write"]]
  /\ UNCHANGED <<self, result, last, ref, pipe, instances, wb>>

MaxItems == ceildiv(MaxLen, 1)

NextConc ==
  \E t \in Tasks :
    \/ Begin(t)
    \/ \E i \in 1..MaxItems : ReadOne(t, i)
    \/ \E i \in 1..MaxItems : WriteOne(t, i)

SpecConc == Init /\ [][NextConc]_vars

\* ------------------------------------------- the codec pipeline alone
\* One batch goes through encode_batched and what comes out goes through
\* decode_batched, every codec call (an await of the code) a step.  The
\* log keeps every codec call with the specs and the batch it was given.
MaxBatch == 2        \* most chunks in a batch

\* the codec lists of one family: no codec, one, or two different ones
CodecLists(family) ==
  {<<>>} \cup { <<c>> : c \in family }
         \cup { <<p[1], p[2]>> : p \in { q \in family \X family : q[1] # q[2] } }

PipelineCodecs ==
  { [aa |-> a, ab |-> "bytes", bb |-> b] :
      a \in CodecLists(ArrayArrayCodecs), b \in CodecLists(BytesBytesCodecs) }

\* the chunk of that shape whose first element alone is True
FirstSet(shape) == [i \in 1..shape |-> i = 1]

\* a chunk with its spec: absent, or the chunk above
BatchItems(fill_value) ==
  { [chunk_spec |-> [shape |-> s, dtype |-> "bool", fill_value |-> fill_value],
     chunk      |-> c] :
      s \in ChunkShapes, c \in {None} } \cup
  { [chunk_spec |-> [shape |-> s, dtype |-> "bool", fill_value |-> fill_value],
     chunk      |-> FirstSet(s)] : s \in ChunkShapes }

Batches ==
  UNION { [1..n -> BatchItems(fill_value)] : n \in 1..MaxBatch, fill_value \in Vals }

InitCodec ==
  /\ \E codecs \in PipelineCodecs, items \in Batches :
       pipe = [dir         |-> "encode",
               codecs      |-> codecs,
               chunk_specs |-> SpecsOf(items),
               input       |-> [i \in DOMAIN items |-> items[i].chunk],
               enc_stages  |-> EncodeStages(codecs),
               dec_stages  |-> <<>>,
               k           |-> 0,
               batch       |-> [i \in DOMAIN items |-> items[i].chunk],
               specs       |-> SpecsOf(items),
               log         |-> <<>>]
  /\ store = <<>> /\ self = None /\ result = None /\ ref = None
  /\ last = Call("none", Slice(0, 0), None, 0, FALSE)
  /\ task = [t \in Tasks |-> IdleTask] /\ writer = <<>>
  /\ instances = <<>> /\ wb = IdleWrite

\* encode_batched: the next codec's encode_batch, then resolve_batched
EncodeStep ==
  /\ pipe.dir = "encode" /\ pipe.k < Len(pipe.enc_stages)
  /\ LET codec == pipe.enc_stages[pipe.k + 1]
         r     == encode_stage(codec, pipe.batch, pipe.specs)
     IN  pipe' = [pipe EXCEPT
                    !.k = @ + 1, !.batch = r.batch, !.specs = r.chunk_specs,
                    !.log = Append(@, [op |-> "encode", codec |-> codec,
                                       chunk_specs |-> pipe.specs,
                                       input |-> pipe.batch,
                                       output |-> r.batch])]
  /\ UNCHANGED <<store, self, result, last, ref, task, writer, instances, wb>>

\* decode_batched is entered with the encoded batch and the specs the
\* encoding started from: lines 116-122
StartDecode ==
  /\ pipe.dir = "encode" /\ pipe.k = Len(pipe.enc_stages)
  /\ pipe' = [pipe EXCEPT
                !.dir = "decode", !.k = 0,
                !.dec_stages =
                  DecodeStages(codecs_with_resolved_metadata_batched(
                                 pipe.codecs, pipe.chunk_specs))]
  /\ UNCHANGED <<store, self, result, last, ref, task, writer, instances, wb>>

\* decode_batched: the next codec's decode_batch
DecodeStep ==
  /\ pipe.dir = "decode" /\ pipe.k < Len(pipe.dec_stages)
  /\ LET pair == pipe.dec_stages[pipe.k + 1]
         out  == decode_stage(pair, pipe.batch)
     IN  pipe' = [pipe EXCEPT
                    !.k = @ + 1, !.batch = out,
                    !.log = Append(@, [op |-> "decode", codec |-> pair[1],
                                       chunk_specs |-> pair[2],
                                       input |-> pipe.batch,
                                       output |-> out])]
  /\ UNCHANGED <<store, self, result, last, ref, task, writer, instances, wb>>

NextCodec == EncodeStep \/ StartDecode \/ DecodeStep

SpecCodec == InitCodec /\ [][NextCodec]_vars

\* ------------------------------------------------ metadata operations
\* create, resize and update_attributes, one call after another, on a
\* store that starts empty.  The objects the calls return are kept by
\* handle, so that a call can be made on any of them.
MaxInstances == 3    \* most AsyncArray objects

\* the attributes a caller passes
Attributes == {<<>>, <<"a">>, <<"b">>}

Returned(h) == [kind |-> "instance", handle |-> h, error |-> "none"]
Raised(e) == [kind |-> "error", handle |-> 0, error |-> e]
MetaCall(op, h, exists_ok) == [op |-> op, handle |-> h, exists_ok |-> exists_ok]

InitMeta ==
  /\ store = <<>> /\ instances = <<>>
  /\ result = [kind |-> "none", handle |-> 0, error |-> "none"]
  /\ last = MetaCall("none", 0, FALSE)
  /\ self = None /\ ref = None
  /\ task = [t \in Tasks |-> IdleTask] /\ writer = <<>>
  /\ pipe = IdlePipe /\ wb = IdleWrite

\* await AsyncArray.create(store, shape=..., exists_ok=...)
CreateCall ==
  \E shape \in Shapes, fill_value \in {None, <<TRUE>>}, exists_ok \in BOOLEAN :
    LET r == create(store, shape, MaxChunk, fill_value, <<>>, exists_ok)
    IN  /\ r.raised # "none" \/ Len(instances) < MaxInstances
        /\ store' = r.store
        /\ last' = MetaCall("create", 0, exists_ok)
        /\ IF r.raised # "none"
           THEN /\ result' = Raised(r.raised)
                /\ UNCHANGED instances
           ELSE /\ instances' = Append(instances, [metadata |-> r.metadata])
                /\ result' = Returned(Len(instances) + 1)
        /\ UNCHANGED <<self, ref, task, writer, pipe, wb>>

\* await instances[h].resize(new_shape)
ResizeCall ==
  \E h \in DOMAIN instances, new_shape \in Shapes :
    LET r   == resize(instances[h].metadata, new_shape, TRUE, store)
        new == replace(instances, h, r.metadata)
    IN  /\ Len(instances) < MaxInstances
        /\ store' = r.store
        /\ instances' = new.objects
        /\ result' = Returned(new.handle)
        /\ last' = MetaCall("resize", h, FALSE)
        /\ UNCHANGED <<self, ref, task, writer, pipe, wb>>

\* await instances[h].update_attributes(new_attributes)
UpdateAttributesCall ==
  \E h \in DOMAIN instances, new_attributes \in Attributes :
    LET r   == update_attributes(instances[h].metadata, new_attributes, store)
        new == replace(instances, h, r.metadata)
    IN  /\ Len(instances) < MaxInstances
        /\ store' = r.store
        /\ instances' = new.objects
        /\ result' = Returned(new.handle)
        /\ last' = MetaCall("update_attributes", h, FALSE)
        /\ UNCHANGED <<self, ref, task, writer, pipe, wb>>

NextMeta == CreateCall \/ ResizeCall \/ UpdateAttributesCall

SpecMeta == InitMeta /\ [][NextMeta]_vars

\* ------------------------------------------- one write_batched call
\* One setitem on an array whose store holds any chunks a writer can have
\* left there.  Every store operation and every codec call of
\* write_batched is a step, it may fail, and it is logged.

\* the chunks a key can hold: any chunk but the one that is all fill_value
StoredChunks(metadata) ==
  { BytesEncode(a, get_chunk_spec(metadata, <<0>>)) :
      a \in { b \in Arrays(metadata.chunk_shape) :
                ~AllEqual(b, metadata.fill_value) } }

\* the stores of an array of that metadata
Stores(metadata) ==
  LET keys == { encode_chunk_key(c) :
                  c \in all_chunk_coords(metadata.shape, metadata.chunk_shape) }
  IN  { [k \in { x \in keys : f[x] # None } \cup {ZARR_JSON} |->
           IF k = ZARR_JSON THEN to_bytes(metadata) ELSE f[k]] :
          f \in [keys -> {None} \cup StoredChunks(metadata)] }

LogEntry(op, key, arg, failed) ==
  [op |-> op, key |-> key, arg |-> arg, failed |-> failed]

InitWrite ==
  /\ \E shape \in Shapes, chunk_shape \in ChunkShapes, fill_value \in Vals,
        codecs \in {DefaultCodecs, ShardingCodecs} :
       LET metadata == [shape |-> shape, data_type |-> "bool",
                        chunk_shape |-> chunk_shape, fill_value |-> fill_value,
                        codecs |-> codecs, attributes |-> <<>>]
       IN  /\ self = [metadata |-> metadata]
           /\ store \in Stores(metadata)
  /\ wb = IdleWrite
  /\ result = None /\ ref = None
  /\ last = Call("none", Slice(0, 0), None, 0, FALSE)
  /\ task = [t \in Tasks |-> IdleTask] /\ writer = <<>>
  /\ pipe = IdlePipe /\ instances = <<>>

\* setitem calls write_batched: the partial-encode path is one call of
\* encode_partial_batched; the other path starts its bounded map of reads
WriteBegin ==
  /\ wb.pc = "idle"
  /\ \E selection \in Selections(self.metadata.shape) :
       \E value \in Arrays(IndexerShape(selection, self.metadata.shape)) :
         LET batch_info == BatchInfo(self.metadata, selection)
             call == [pc |-> "read", partial |-> FALSE,
                      batch_info |-> batch_info, value |-> value,
                      store0 |-> store,
                      pending |-> { i \in DOMAIN batch_info :
                                      ReadArg(batch_info[i]) # None },
                      chunk_bytes_batch |-> [i \in DOMAIN batch_info |-> None],
                      chunk_array_batch |-> <<>>,
                      merged |-> <<>>, towrite |-> <<>>, log |-> <<>>]
         IN  IF supports_partial_encode(self.metadata.codecs)
             THEN LET entries == PartialEntries(batch_info, value)
                  IN  /\ wb' = [call EXCEPT
                                  !.pc = "done", !.partial = TRUE, !.pending = {},
                                  !.log = <<LogEntry("encode_partial_batched",
                                                     None, entries, FALSE)>>]
                      /\ store' = encode_partial_batched(self.metadata.codecs,
                                                         entries, store)
             ELSE /\ wb' = [call EXCEPT
                              !.pc = IF call.pending = {} THEN "decode" ELSE "read"]
                  /\ UNCHANGED store
  /\ UNCHANGED <<self, result, last, ref, task, writer, pipe, instances>>

\* one _read_key of the first bounded map completes, or its get fails
WriteGet(i) ==
  /\ wb.pc = "read" /\ i \in wb.pending
  /\ \E fails \in BOOLEAN :
       LET item == wb.batch_info[i]
           r    == ReadKeyOutcome(store, ReadArg(item), fails)
           log  == Append(wb.log, LogEntry("get", item.store_path, None, fails))
       IN  wb' = IF r.raised
                 THEN [wb EXCEPT !.pc = "failed", !.log = log]
                 ELSE [wb EXCEPT
                         !.pc = IF wb.pending = {i} THEN "decode" ELSE "read",
                         !.pending = @ \ {i},
                         !.chunk_bytes_batch[i] = r.value,
                         !.log = log]
  /\ UNCHANGED <<store, self, result, last, ref, task, writer, pipe, instances>>

\* await decode_batched, lines 223-229, or a codec fails in it
WriteDecode ==
  /\ wb.pc = "decode"
  /\ \E fails \in BOOLEAN :
       LET log == Append(wb.log, LogEntry("decode_batched", None, None, fails))
       IN  wb' = IF fails
                 THEN [wb EXCEPT !.pc = "failed", !.log = log]
                 ELSE [wb EXCEPT
                         !.pc = "encode",
                         !.chunk_array_batch =
                           decode_batched(self.metadata.codecs,
                                          wb.chunk_bytes_batch,
                                          SpecsOf(wb.batch_info)),
                         !.log = log]
  /\ UNCHANGED <<store, self, result, last, ref, task, writer, pipe, instances>>

\* merge, elision and await encode_batched, lines 250-268, or a codec
\* fails in it; then the bounded map of writes is entered
WriteEncode ==
  /\ wb.pc = "encode"
  /\ \E fails \in BOOLEAN :
       LET log    == Append(wb.log, LogEntry("encode_batched", None, None, fails))
           merged == MergeBatch(wb.chunk_array_batch, wb.batch_info, wb.value)
           elided == ElideBatch(merged, wb.batch_info)
       IN  wb' = IF fails
                 THEN [wb EXCEPT !.pc = "failed", !.log = log]
                 ELSE [wb EXCEPT
                         !.pc = "write",
                         !.pending = DOMAIN wb.batch_info,
                         !.merged = merged,
                         !.towrite = encode_batched(self.metadata.codecs, elided,
                                                    SpecsOf(wb.batch_info)),
                         !.log = log]
  /\ UNCHANGED <<store, self, result, last, ref, task, writer, pipe, instances>>

\* one _write_key of the second bounded map completes, or its set or
\* delete fails
WriteKey(i) ==
  /\ wb.pc = "write" /\ i \in wb.pending
  /\ \E fails \in BOOLEAN :
       LET item == wb.batch_info[i]
           log  == Append(wb.log,
                          LogEntry(IF wb.towrite[i] = None THEN "delete" ELSE "set",
                                   item.store_path, wb.towrite[i], fails))
       IN  IF fails
           THEN /\ wb' = [wb EXCEPT !.pc = "failed", !.log = log]
                /\ UNCHANGED store
           ELSE /\ wb' = [wb EXCEPT
                            !.pc = IF wb.pending = {i} THEN "done" ELSE "write",
                            !.pending = @ \ {i},
                            !.log = log]
                /\ store' = _write_key(store, item.store_path, wb.towrite[i])
  /\ UNCHANGED <<self, result, last, ref, task, writer, pipe, instances>>

NextWrite ==
  \/ WriteBegin
  \/ \E i \in 1..MaxItems : WriteGet(i)
  \/ WriteDecode
  \/ WriteEncode
  \/ \E i \in 1..MaxItems : WriteKey(i)

SpecWrite == InitWrite /\ [][NextWrite]_vars

\* =============================================================== claims
ChunkKeys(s) == DOMAIN s \ {ZARR_JSON}
Fill == self.metadata.fill_value
ChunkLen == self.metadata.chunk_shape
WholeArray == Slice(0, self.metadata.shape)

\* the chunk stored under the key of a work item, decoded
StoredChunk(s, item) == BytesDecode(s[item.store_path], item.chunk_spec)

\* the work items of the last getitem or setitem
LastBatch == BatchInfo(self.metadata, last.selection)

Mixed(arr) == \E i, j \in DOMAIN arr : arr[i] # arr[j]

\* C1. Round trip: a getitem of the whole array that comes right after a
\* setitem of the whole array with A returns A, element by element,
\* whatever the store held before the write and whether or not the shape is
\* a multiple of the chunk shape.
C1_RoundTrip ==
  (last.op = "getitem" /\ last.selection = WholeArray /\ last.value # None)
    => result = last.value

C1_Witness ==
  /\ last.op = "getitem" /\ last.selection = WholeArray /\ last.value # None
  /\ self.metadata.shape % ChunkLen # 0
  /\ Mixed(last.value)
  /\ ref = None
  /\ result = last.value

\* C2. After any sequence of setitem calls on a freshly created array the
\* whole array reads as the dense reference array that received the same
\* assignments, and every getitem returns the selected part of it: a
\* setitem changes the selected elements and no others.
C2_SubRegion ==
  ref # None =>
    /\ getitem(self.metadata, FullSelection, store) = ref
    /\ last.op = "getitem" => result = GetSlice(ref, last.selection)

\* a setitem inside chunk 0 that left a differing element of chunk 0 alone
C2_Witness ==
  /\ ref # None /\ last.op = "setitem"
  /\ ChunkLen = 2 /\ self.metadata.shape >= 2
  /\ SelLen(last.selection) = 1
  /\ ref[1] # ref[2]
  /\ ref[last.selection.start + 1] = Fill
  /\ getitem(self.metadata, FullSelection, store) = ref

\* C3 as stated. After a setitem whose value is fill_value everywhere, no
\* chunk touched by the region has a key in the store.
C3_ElisionEveryRegion ==
  (last.op = "setitem" /\ AllEqual(last.value, Fill)) =>
    \A i \in DOMAIN LastBatch : ~StoreExists(store, LastBatch[i].store_path)

\* C3 as amended. After a setitem whose value is fill_value everywhere, a
\* chunk touched by the region has no key in the store unless the chunk
\* holds an element different from fill_value outside the region; the
\* chunks the region covers whole have no key.
C3_Elision ==
  (last.op = "setitem" /\ AllEqual(last.value, Fill)) =>
    \A i \in DOMAIN LastBatch :
      StoreExists(store, LastBatch[i].store_path) =>
        LET item  == LastBatch[i]
            chunk == StoredChunk(store, item)
        IN  \E p \in 1..ChunkLen :
              /\ ~(item.chunk_selection.start < p /\ p <= item.chunk_selection.stop)
              /\ chunk[p] # Fill

\* an all-fill write over two chunks, one of them left in the store
C3_Witness ==
  /\ last.op = "setitem" /\ AllEqual(last.value, Fill)
  /\ \E i, j \in DOMAIN LastBatch :
       /\ StoreExists(store, LastBatch[i].store_path)
       /\ ~StoreExists(store, LastBatch[j].store_path)

\* C4. An absent chunk key is no error on read: getitem returns an array
\* of the selection's shape in which every element of a chunk whose key is
\* absent is fill_value and every element of a present chunk is that
\* chunk's stored element.
C4_AbsentReadsFill ==
  last.op = "getitem" =>
    /\ Len(result) = SelLen(last.selection)
    /\ \A e \in last.selection.start..(last.selection.stop - 1) :
         LET k   == e \div ChunkLen
             key == encode_chunk_key(<<k>>)
         IN  result[e - last.selection.start + 1] =
               IF StoreExists(store, key)
               THEN BytesDecode(store[key],
                                get_chunk_spec(self.metadata, <<k>>))[(e % ChunkLen) + 1]
               ELSE Fill

\* a read over an absent and a present chunk of an array whose fill_value
\* is not what the output buffer is allocated with
C4_Witness ==
  /\ last.op = "getitem" /\ Fill = TRUE
  /\ \E i, j \in DOMAIN LastBatch :
       /\ StoreExists(store, LastBatch[i].store_path)
       /\ ~StoreExists(store, LastBatch[j].store_path)
  /\ Mixed(result)

\* C5. After resize(new_shape, delete_outside_chunks = true) every chunk
\* key in the store is the key of a chunk of the new grid, whatever calls
\* came before.
C5_ResizeDeletion ==
  (last.op = "resize" /\ last.delete_outside_chunks) =>
    ChunkKeys(store) \subseteq
      { encode_chunk_key(c) :
          c \in all_chunk_coords(self.metadata.shape, ChunkLen) }

\* C6. A resize (delete_outside_chunks at its default) to a shape inside
\* the old one removes the keys of the chunks of the old grid that are not
\* in the new grid, sets or deletes no key of a chunk of the new grid, and
\* every selection inside the new shape reads on the returned instance as
\* it read before.
ShrinkStep ==
  /\ last'.op = "resize" /\ last'.delete_outside_chunks
  /\ last'.shape = self.metadata.shape
  /\ self'.metadata.shape <= self.metadata.shape

C7_Idempotent ==
  [][(last'.op = "setitem" /\ last' = last) => store' = store]_vars

\* a write of part of a chunk that left the chunk in the store
C7_Witness ==
  /\ last.op = "setitem"
  /\ \E i \in DOMAIN LastBatch :
       /\ ~is_total_slice(LastBatch[i].chunk_selection, ChunkLen)
       /\ StoreExists(store, LastBatch[i].store_path)
       /\ Mixed(StoredChunk(store, LastBatch[i]))
  /\ setitem(self.metadata, last.selection, last.value, store) = store

\* C8. Selection coverage: the work items of a getitem or setitem address
\* every element of the normalised selection exactly once, in the output
\* (out_selection) and in the chunks (chunk key and chunk_selection), and
\* address nothing outside the selection.
OutCovered(item) == item.out_selection.start..(item.out_selection.stop - 1)

\* the array index that position p of the item's out_selection stands for
ArrayIndexOf(item, p) ==
  item.store_path[2] * ChunkLen + item.chunk_selection.start
    + (p - item.out_selection.start)

C8_Coverage ==
  last.op \in {"getitem", "setitem"} =>
    /\ \A p \in 0..(SelLen(last.selection) - 1) :
         Cardinality({ i \in DOMAIN LastBatch : p \in OutCovered(LastBatch[i]) }) = 1
    /\ \A i \in DOMAIN LastBatch :
         /\ OutCovered(LastBatch[i]) \subseteq 0..(SelLen(last.selection) - 1)
         /\ SelLen(LastBatch[i].chunk_selection) = SelLen(LastBatch[i].out_selection)
         /\ \A p \in OutCovered(LastBatch[i]) :
              ArrayIndexOf(LastBatch[i], p) = last.selection.start + p

\* a selection over several chunks that starts and ends inside a chunk
C8_Witness ==
  /\ last.op \in {"getitem", "setitem"}
  /\ Len(LastBatch) >= 2
  /\ ~is_total_slice(LastBatch[1].chunk_selection, ChunkLen)
  /\ ~is_total_slice(LastBatch[Len(LastBatch)].chunk_selection, ChunkLen)

\* ------------------------------------------ claims on concurrent calls
\* the store as create() left it
Store0 == StoreSet(<<>>, ZARR_JSON, to_bytes(self.metadata))

\* the place of a key among the work items of a task
ItemOf(t, key) ==
  CHOOSE i \in DOMAIN TaskBatch(t) : TaskBatch(t)[i].store_path = key

Disjoint(sel1, sel2) == sel1.stop <= sel2.start \/ sel2.stop <= sel1.start

\* what the two setitem calls leave when one runs after the other
AfterBoth(t, u) ==
  setitem(self.metadata, task[u].selection, task[u].value,
          setitem(self.metadata, task[t].selection, task[t].value, Store0))

\* C9. Writes do not lock chunks.  At the level of a key the last writer
\* wins: under every chunk key that a call has set or deleted the store
\* holds what the call whose set or delete came last wrote (nothing, if it
\* deleted).  The witness is the interleaving the claim names: two calls
\* write disjoint parts of one chunk, both read the chunk before either
\* writes it, and the store ends in a state that neither order of the two
\* calls produces.
C9_LastWriterWins ==
  \A key \in DOMAIN writer :
    StoreGet(store, key) = task[writer[key]].towrite[ItemOf(writer[key], key)]

C9_LostUpdate ==
  /\ \A t \in Tasks : task[t].pc = "done" /\ task[t].op = "setitem"
  /\ Disjoint(task[1].selection, task[2].selection)
  /\ \E key \in DOMAIN writer :
       \A t \in Tasks :
         /\ \E i \in DOMAIN TaskBatch(t) : TaskBatch(t)[i].store_path = key
         /\ ~is_total_slice(TaskBatch(t)[ItemOf(t, key)].chunk_selection, ChunkLen)
         /\ task[t].seen[key] = StoreGet(Store0, key)
  /\ store # AfterBoth(1, 2)
  /\ store # AfterBoth(2, 1)

\* C10. Batches keep their order.  Whatever order the store operations of
\* a bounded map complete in: a getitem puts at every position of its
\* output the element of the bytes it fetched under that position's chunk
\* key (fill_value if the key was absent); a setitem writes for its i-th
\* item the merge of the bytes it fetched under the i-th key with the i-th
\* part of the value, and a setitem that runs alone leaves the store that
\* its items written in input order leave.
C10_OrderPreserved ==
  \A t \in Tasks :
    /\ (task[t].op = "getitem" /\ task[t].pc = "done") =>
         /\ Len(task[t].out) = SelLen(task[t].selection)
         /\ \A e \in task[t].selection.start..(task[t].selection.stop - 1) :
              LET k     == e \div ChunkLen
                  bytes == task[t].seen[encode_chunk_key(<<k>>)]
              IN  task[t].out[e - task[t].selection.start + 1] =
                    IF bytes = None THEN Fill
                    ELSE BytesDecode(bytes, get_chunk_spec(self.metadata, <<k>>))
                           [(e % ChunkLen) + 1]
    /\ (task[t].op = "setitem" /\ task[t].pc \in {"write", "done"}) =>
         \A i \in DOMAIN TaskBatch(t) :
           LET item == TaskBatch(t)[i]
           IN  task[t].towrite[i] =
                 WriteCompute(self.metadata.codecs,
                              <<task[t].seen[item.store_path]>>,
                              <<item>>, task[t].value)[1]
    /\ (task[t].op = "setitem" /\ task[t].pc = "done"
          /\ \A u \in Tasks \ {t} : task[u].pc = "idle") =>
         store = setitem(self.metadata, task[t].selection, task[t].value, Store0)

\* a getitem whose reads completed out of input order and returned
\* differing elements, beside a setitem that has written a later item
\* before its first
C10_Witness ==
  \E t, u \in Tasks :
    /\ task[t].op = "getitem" /\ task[t].pc = "done"
    /\ task[t].reordered /\ Mixed(task[t].out)
    /\ task[u].op = "setitem" /\ task[u].pc = "write"
    /\ 1 \in task[u].pending
    /\ \E i \in DOMAIN TaskBatch(u) : i \notin task[u].pending

\* ------------------------------------------ claims on the codec pipeline
\* the codecs of the pipeline in list order
CodecOrder == pipe.codecs.aa \o <<pipe.codecs.ab>> \o pipe.codecs.bb

\* the calls of the log made by encode_batched / by decode_batched
LogOf(op) == SelectSeq(pipe.log, LAMBDA e : e.op = op)

\* C11. Spec propagation: the specs that
\* _codecs_with_resolved_metadata_batched computes for a codec are the
\* specs encode_batched, which resolves them as it goes, gives that codec,
\* and the specs decode_batched gives it, the codecs taken back to front.
C11_SpecPropagation ==
  pipe.dir # "idle" =>
    LET resolved == codecs_with_resolved_metadata_batched(pipe.codecs,
                                                          pipe.chunk_specs)
        computed == resolved.aa \o <<resolved.ab>> \o resolved.bb
        n        == Len(computed)
        enc      == LogOf("encode")
        dec      == LogOf("decode")
    IN  /\ \A k \in DOMAIN computed : computed[k][1] = CodecOrder[k]
        /\ \A k \in DOMAIN enc :
             enc[k].codec = computed[k][1] /\ enc[k].chunk_specs = computed[k][2]
        /\ \A j \in DOMAIN dec :
             /\ dec[j].codec = computed[n + 1 - j][1]
             /\ dec[j].chunk_specs = computed[n + 1 - j][2]

\* a batch of two chunks of different shape went through a pipeline that
\* pads before a second array-array codec and has bytes-bytes codecs, and
\* came back as it went in
C11_Witness ==
  /\ pipe.dir = "decode" /\ pipe.k = Len(pipe.dec_stages)
  /\ pipe.codecs.aa = <<"pad", "flip">> /\ Len(pipe.codecs.bb) = 2
  /\ Len(pipe.chunk_specs) = 2
  /\ pipe.chunk_specs[1].shape # pipe.chunk_specs[2].shape
  /\ \E e \in DOMAIN pipe.log : pipe.log[e].chunk_specs # pipe.chunk_specs
  /\ pipe.input[1] # None
  /\ pipe.batch = pipe.input

\* C12. Stage ordering: encode_batched calls the array-array codecs in
\* list order, then the array-bytes codec, then the bytes-bytes codecs in
\* list order, each on the batch the call before it returned;
\* decode_batched calls the same codecs in exactly the reverse order, each
\* on the batch the call before it returned.
C12_StageOrder ==
  pipe.dir # "idle" =>
    LET enc == LogOf("encode")
        dec == LogOf("decode")
        n   == Len(CodecOrder)
    IN  /\ \A k \in DOMAIN enc :
             /\ enc[k].codec = CodecOrder[k]
             /\ enc[k].input = IF k = 1 THEN pipe.input ELSE enc[k - 1].output
        /\ \A j \in DOMAIN dec :
             /\ Len(enc) = n
             /\ dec[j].codec = CodecOrder[n + 1 - j]
             /\ dec[j].input = IF j = 1 THEN enc[n].output ELSE dec[j - 1].output
        /\ pipe.log = enc \o dec

\* both directions ran to the end through two array-array and two
\* bytes-bytes codecs, on a chunk that every codec changes
C12_Witness ==
  /\ pipe.dir = "decode" /\ pipe.k = Len(pipe.dec_stages)
  /\ Len(pipe.codecs.aa) = 2 /\ pipe.codecs.bb = <<"rev", "crc">>
  /\ Len(pipe.log) = 10
  /\ \A e \in DOMAIN pipe.log :
       pipe.log[e].codec # "bytes" => pipe.log[e].input # pipe.log[e].output
  /\ pipe.batch = pipe.input

\* ------------------------------------- claims on the metadata operations
\* C13. Conflict on create: create with exists_ok = false on a store
\* whose key zarr.json exists fails with an error and leaves the store as
\* it is; with exists_ok = true, or with the key absent, create saves the
\* new metadata document and returns an instance of that metadata.
C13_CreateConflict ==
  [][last'.op = "create" =>
       IF ~last'.exists_ok /\ StoreExists(store, ZARR_JSON)
       THEN /\ result'.kind = "error"
            /\ store' = store
            /\ instances' = instances
       ELSE /\ result'.kind = "instance"
            /\ result'.handle \notin DOMAIN instances
            /\ result'.handle \in DOMAIN instances'
            /\ store' = StoreSet(store, ZARR_JSON,
                                 to_bytes(instances'[result'.handle].metadata))
            /\ instances'[result'.handle].metadata.codecs = DefaultCodecs
            /\ \A h \in DOMAIN instances : instances'[h] = instances[h]]_vars

\* a create that was refused although it asked for another document than
\* the one in the store, after a create with exists_ok = true replaced one
C13_Witness ==
  /\ last.op = "create" /\ ~last.exists_ok /\ result.kind = "error"
  /\ Len(instances) = 2
  /\ instances[1].metadata # instances[2].metadata
  /\ store[ZARR_JSON] = to_bytes(instances[2].metadata)

\* C14. Metadata is replaced, never mutated: a call leaves every object
\* there is, the one it is made on among them, as it is; resize and
\* update_attributes return a new object; and when create, resize or
\* update_attributes returns an object, the store holds that object's
\* metadata document under zarr.json.
C14_MetadataReplaced ==
  [][/\ \A h \in DOMAIN instances :
          h \in DOMAIN instances' /\ instances'[h] = instances[h]
     /\ last'.op \in {"resize", "update_attributes"} =>
          /\ result'.kind = "instance"
          /\ result'.handle \notin DOMAIN instances
     /\ result'.kind = "instance" =>
          /\ result'.handle \in DOMAIN instances'
          /\ StoreGet(store', ZARR_JSON) =
               to_bytes(instances'[result'.handle].metadata)]_vars

\* create, then resize, then update_attributes, each on the object the
\* call before it returned, each changing the metadata
C14_Witness ==
  /\ Len(instances) = 3
  /\ last.op = "update_attributes" /\ last.handle = 2 /\ result.handle = 3
  /\ instances[2].metadata.shape # instances[1].metadata.shape
  /\ instances[2].metadata.attributes = instances[1].metadata.attributes
  /\ instances[3].metadata.attributes # instances[2].metadata.attributes
  /\ instances[3].metadata.shape = instances[2].metadata.shape
  /\ store[ZARR_JSON] = to_bytes(instances[3].metadata)

\* ------------------------------------- claims on one write_batched call
\* the calls of the log with one of these names, on that key
LogOn(names, key) ==
  SelectSeq(wb.log, LAMBDA e : e.op \in names /\ e.key = key)

\* the store operations of the log that change the store
Mutations == { j \in DOMAIN wb.log : wb.log[j].op \in {"set", "delete"} }

\* the first bounded map and decode_batched are through
ReadsDone == \E j \in DOMAIN wb.log : wb.log[j].op = "decode_batched"

IsTotal(item) == is_total_slice(item.chunk_selection, ChunkLen)

\* the chunk of a work item as the write has to leave it: what the store
\* held when the call began (fill_value if it held nothing) with the
\* item's part of the value put in
ExpectedChunk(item) ==
  LET old == IF StoreExists(wb.store0, item.store_path)
             THEN BytesDecode(wb.store0[item.store_path], item.chunk_spec)
             ELSE Full(ChunkLen, Fill)
  IN  SetSlice(old, item.chunk_selection, GetSlice(wb.value, item.out_selection))

\* C15. Read-modify-write reads only when needed: without partial encode
\* write_batched issues a store get for an item's key if and only if the
\* item's chunk_selection is not a total slice, once; a total-slice item
\* reads nothing and its merged chunk is value[out_selection].
C15_ReadsWhenNeeded ==
  (wb.pc # "idle" /\ ~wb.partial) =>
    /\ \A i \in DOMAIN wb.batch_info :
         LET item == wb.batch_info[i]
             n    == Len(LogOn({"get"}, item.store_path))
         IN  /\ IsTotal(item) => n = 0
             /\ ~IsTotal(item) => n <= 1 /\ (ReadsDone => n = 1)
             /\ (IsTotal(item) /\ wb.merged # <<>>) =>
                  wb.merged[i] = GetSlice(wb.value, item.out_selection)
    /\ \A j \in DOMAIN wb.log :
         wb.log[j].op = "get" =>
           \E i \in DOMAIN wb.batch_info :
             wb.batch_info[i].store_path = wb.log[j].key

\* a finished write over a chunk it covers whole and a chunk it covers in
\* part, both in the store before
C15_Witness ==
  /\ wb.pc = "done" /\ ~wb.partial
  /\ \E i, j \in DOMAIN wb.batch_info :
       /\ IsTotal(wb.batch_info[i]) /\ ~IsTotal(wb.batch_info[j])
       /\ StoreExists(wb.store0, wb.batch_info[i].store_path)
       /\ StoreExists(wb.store0, wb.batch_info[j].store_path)
       /\ Len(LogOn({"get"}, wb.batch_info[i].store_path)) = 0
       /\ Len(LogOn({"get"}, wb.batch_info[j].store_path)) = 1

\* C16. Delete-or-set per item: a write_batched call (no partial encode)
\* that completes has issued for every item exactly one store mutation on
\* the item's key and none on another key: a delete if the merged chunk is
\* fill_value on every element, a set of the encoded merged chunk
\* otherwise.  After the call a touched key exists if and only if its
\* merged chunk has an element that is not fill_value.
C16_DeleteOrSet ==
  (wb.pc = "done" /\ ~wb.partial) =>
    /\ Cardinality(Mutations) = Len(wb.batch_info)
    /\ \A i \in DOMAIN wb.batch_info :
         LET item    == wb.batch_info[i]
             muts    == LogOn({"set", "delete"}, item.store_path)
             merged  == ExpectedChunk(item)
             allfill == AllEqual(merged, Fill)
         IN  /\ wb.merged[i] = merged
             /\ Len(muts) = 1
             /\ muts[1].op = IF allfill THEN "delete" ELSE "set"
             /\ StoreExists(store, item.store_path) <=> ~allfill
             /\ ~allfill =>
                  /\ muts[1].arg = BytesEncode(merged, item.chunk_spec)
                  /\ store[item.store_path] = BytesEncode(merged, item.chunk_spec)
    /\ \A key \in (DOMAIN store \cup DOMAIN wb.store0) \
                    { wb.batch_info[i].store_path : i \in DOMAIN wb.batch_info } :
         StoreGet(store, key) = StoreGet(wb.store0, key)

\* a finished write that deleted a key that was there and set another
C16_Witness ==
  /\ wb.pc = "done" /\ ~wb.partial
  /\ \E i, j \in DOMAIN wb.batch_info :
       /\ StoreExists(wb.store0, wb.batch_info[i].store_path)
       /\ ~StoreExists(store, wb.batch_info[i].store_path)
       /\ ~IsTotal(wb.batch_info[i])
       /\ StoreExists(store, wb.batch_info[j].store_path)
       /\ store[wb.batch_info[j].store_path] #
            StoreGet(wb.store0, wb.batch_info[j].store_path)

\* C17. Partial-encode fast path: when supports_partial_encode holds,
\* write_batched makes one call, encode_partial_batched, with one entry
\* (store_path, value[out_selection], chunk_selection, chunk_spec) per
\* item in batch order, and issues no store get, set or delete itself and
\* looks for no fill_value: an all-fill part is handed on as it is.
C17_PartialEncode ==
  (wb.pc # "idle" /\ supports_partial_encode(self.metadata.codecs)) =>
    /\ wb.partial /\ wb.pc = "done"
    /\ Len(wb.log) = 1
    /\ wb.log[1].op = "encode_partial_batched"
    /\ Len(wb.log[1].arg) = Len(wb.batch_info)
    /\ \A i \in DOMAIN wb.batch_info :
         wb.log[1].arg[i] =
           [store_path      |-> wb.batch_info[i].store_path,
            chunk_array     |-> GetSlice(wb.value, wb.batch_info[i].out_selection),
            chunk_selection |-> wb.batch_info[i].chunk_selection,
            chunk_spec      |-> wb.batch_info[i].chunk_spec]

\* an all-fill write over two chunks on the partial-encode path
C17_Witness ==
  /\ wb.pc = "done" /\ wb.partial
  /\ Len(wb.batch_info) = 2
  /\ AllEqual(wb.value, Fill)
  /\ StoreExists(wb.store0, wb.batch_info[1].store_path)
  /\ Len(wb.log) = 1 /\ Mutations = {}

\* C18. Read phase precedes write phase: in one write_batched call (no
\* partial encode) every store get, decode_batched and encode_batched are
\* through, without an error, before the first set or delete is issued;
\* a call in which a get, the decoding or the encoding fails ends there
\* and has changed no key.
C18_ReadBeforeWrite ==
  (wb.pc # "idle" /\ ~wb.partial) =>
    /\ \A a, b \in DOMAIN wb.log :
         (a < b /\ a \in Mutations) => b \in Mutations
    /\ Mutations # {} =>
         /\ \A i \in DOMAIN wb.batch_info :
              ~IsTotal(wb.batch_info[i]) =>
                \E j \in DOMAIN wb.log :
                  /\ wb.log[j].op = "get" /\ ~wb.log[j].failed
                  /\ wb.log[j].key = wb.batch_info[i].store_path
         /\ \E j \in DOMAIN wb.log :
              wb.log[j].op = "decode_batched" /\ ~wb.log[j].failed
         /\ \E j \in DOMAIN wb.log :
              wb.log[j].op = "encode_batched" /\ ~wb.log[j].failed
    /\ (\E j \in DOMAIN wb.log :
          /\ wb.log[j].failed
          /\ wb.log[j].op \in {"get", "decode_batched", "encode_batched"}) =>
         /\ wb.pc = "failed"
         /\ Mutations = {}
         /\ store = wb.store0

\* a call that read a chunk that was there and then failed in encoding
C18_Witness ==
  /\ wb.pc = "failed" /\ ~wb.partial
  /\ Len(wb.log) >= 3
  /\ wb.log[1].op = "get" /\ StoreExists(wb.store0, wb.log[1].key)
  /\ wb.log[Len(wb.log)].op = "encode_batched" /\ wb.log[Len(wb.log)].failed
  /\ \E i \in DOMAIN wb.batch_info :
       ExpectedChunk(wb.batch_info[i]) #
         IF StoreExists(store, wb.batch_info[i].store_path)
         THEN BytesDecode(store[wb.batch_info[i].store_path],
                          wb.batch_info[i].chunk_spec)
         ELSE Full(ChunkLen, Fill)
  /\ store = wb.store0

\* --------------------------------------------- claims on stored chunks
\* C19. No all-fill chunk is ever stored.  Starting from the store that
\* create() leaves, which has no chunk key, after any sequence of setitem
\* calls (getitem and resize calls between them change nothing of it)
\* every chunk key in the store holds bytes that decode to a chunk with
\* at least one element different from fill_value.
C19_NoFillChunkStored ==
  \A key \in ChunkKeys(store) :
    LET chunk_spec == get_chunk_spec(self.metadata, Tail(key))
        chunk      == decode_batched(self.metadata.codecs, <<store[key]>>,
                                     <<chunk_spec>>)[1]
    IN  \E p \in 1..Len(chunk) : chunk[p] # chunk_spec.fill_value

\* a setitem with fill_value in its value has left one chunk it touched
\* in the store, holding fill_value beside another element, and another
\* chunk it touched without a key
C19_Witness ==
  /\ last.op = "setitem" /\ ref # None
  /\ \E p \in DOMAIN last.value : last.value[p] = Fill
  /\ \E i, j \in DOMAIN LastBatch :
       /\ StoreExists(store, LastBatch[i].store_path)
       /\ Mixed(StoredChunk(store, LastBatch[i]))
       /\ ~StoreExists(store, LastBatch[j].store_path)

\* ------------------------------- claims on concurrent, disjoint writes
\* Two setitem calls on disjoint chunks run as tasks on an array that
\* holds data already: ref is the dense array assigned to it, whole,
\* before the two calls.

\* the store after create() and one setitem of the whole array
StoreOf(metadata, array) ==
  setitem(metadata, Slice(0, metadata.shape), array,
          StoreSet(<<>>, ZARR_JSON, to_bytes(metadata)))

InitDisj ==
  \E shape \in Shapes, chunk_shape \in ChunkShapes, fill_value \in Vals :
    \E array \in Arrays(shape) :
      LET metadata == [shape |-> shape, data_type |-> "bool",
                       chunk_shape |-> chunk_shape, fill_value |-> fill_value,
                       codecs |-> DefaultCodecs, attributes |-> <<>>]
      IN  /\ self = [metadata |-> metadata]
          /\ store = StoreOf(metadata, array)
          /\ result = None
          /\ last = Call("setitem", Slice(0, shape), array, shape, FALSE)
          /\ ref = array
          /\ task = [t \in Tasks |-> IdleTask]
          /\ writer = <<>>
          /\ pipe = IdlePipe
          /\ instances = <<>>
          /\ wb = IdleWrite

\* the chunk keys of a task's work items
TaskKeys(t) == { TaskBatch(t)[i].store_path : i \in DOMAIN TaskBatch(t) }

\* the chunk keys a selection touches
KeysOf(selection) ==
  { BatchInfo(self.metadata, selection)[i].store_path :
      i \in DOMAIN BatchInfo(self.metadata, selection) }

\* a setitem call starts: the indexer is built, the first bounded map of
\* write_batched is entered.  The caller gives the call that starts
\* second a selection that touches no chunk of the first call's.
BeginSetItem(t) ==
  /\ task[t].pc = "idle"
  /\ \A u \in Tasks : u < t => task[u].pc # "idle"
  /\ \E selection \in Selections(self.metadata.shape) :
       \E v \in Vals :
         /\ \A u \in Tasks : u < t => KeysOf(selection) \cap TaskKeys(u) = {}
         /\ task' = [task EXCEPT ![t] =
                    [IdleTask EXCEPT
                       !.pc = "read",
                       !.op = "setitem",
                       !.selection = Normalize(selection, self.metadata.shape),
                       !.value = Full(IndexerShape(selection, self.metadata.shape), v),
                       !.pending = DOMAIN BatchInfo(self.metadata, selection)]]
  /\ UNCHANGED <<store, self, result, last, ref, writer, pipe, instances, wb>>

NextDisj ==
  \E t \in Tasks :
    \/ BeginSetItem(t)
    \/ \E i \in 1..MaxItems : ReadOne(t, i)
    \/ \E i \in 1..MaxItems : WriteOne(t, i)

SpecDisj == InitDisj /\ [][NextDisj]_vars

\* the store before the two calls
StoreBefore == StoreOf(self.metadata, ref)

\* what the two setitem calls leave when one runs after the other
Sequentially(t, u) ==
  setitem(self.metadata, task[u].selection, task[u].value,
          setitem(self.metadata, task[t].selection, task[t].value, StoreBefore))

\* both calls have returned
BothWritten == \A t \in Tasks : task[t].op = "setitem" /\ task[t].pc = "done"

\* C20. Concurrent writes to disjoint chunks are independent.  When two
\* setitem calls run concurrently and their selections touch disjoint
\* sets of chunks, then, however their store operations interleave, once
\* both have returned the store is the one that the first call followed
\* by the second leaves, and the one that the second followed by the
\* first leaves.
C20_DisjointChunksIndependent ==
  (BothWritten /\ TaskKeys(1) \cap TaskKeys(2) = {}) =>
    /\ store = Sequentially(1, 2)
    /\ store = Sequentially(2, 1)

\* two calls on disjoint chunks have returned; each changed a part of a
\* chunk that was in the store before, and one chunk that was there
\* before is gone
C20_Witness ==
  /\ BothWritten /\ TaskKeys(1) \cap TaskKeys(2) = {}
  /\ \A t \in Tasks :
       \E i \in DOMAIN TaskBatch(t) :
         LET key == TaskBatch(t)[i].store_path
         IN  /\ ~is_total_slice(TaskBatch(t)[i].chunk_selection, ChunkLen)
             /\ StoreExists(StoreBefore, key)
             /\ StoreGet(store, key) # StoreGet(StoreBefore, key)
  /\ \E key \in ChunkKeys(StoreBefore) : ~StoreExists(store, key)

\* ------------------------------------------- concurrent create calls
\* Two create calls on one store path run as tasks of the event loop.
\* create awaits twice: the exists() of line 92 (when exists_ok is false)
\* and the set() of _save_metadata, line 124; another task may run at
\* either.

\* a create call that has not started
IdleCreate ==
  [pc |-> "idle", shape |-> 0, fill_value |-> None, attributes |-> <<>>,
   exists_ok |-> FALSE, metadata |-> None]

InitCreate ==
  /\ store = <<>> /\ instances = <<>>
  /\ result = [kind |-> "none", handle |-> 0, error |-> "none"]
  /\ last = MetaCall("none", 0, FALSE)
  /\ self = None /\ ref = None
  /\ task = [t \in Tasks |-> IdleCreate] /\ writer = <<>>
  /\ pipe = IdlePipe /\ wb = IdleWrite

\* create is called: lines 90-91, up to the first await
CreateBegin(t) ==
  /\ task[t].pc = "idle"
  /\ \E shape \in Shapes, fill_value \in {None, <<TRUE>>},
        attributes \in Attributes, exists_ok \in BOOLEAN :
       task' = [task EXCEPT ![t] =
                  [pc |-> IF exists_ok THEN "save" ELSE "exists",
                   shape |-> shape, fill_value |-> fill_value,
                   attributes |-> attributes, exists_ok |-> exists_ok,
                   metadata |-> None]]
  /\ UNCHANGED <<store, self, result, last, ref, writer, pipe, instances, wb>>

\* line 92: the awaited exists() returns and the assert is evaluated
CreateExists(t) ==
  /\ task[t].pc = "exists"
  /\ LET r == create(store, task[t].shape, MaxChunk, task[t].fill_value,
                     task[t].attributes, FALSE)
     IN  task' = [task EXCEPT ![t].pc =
                    IF r.raised # "none" THEN "raised" ELSE "save"]
  /\ UNCHANGED <<store, self, result, last, ref, writer, pipe, instances, wb>>

\* lines 94-125: defaults, the metadata, the object, the awaited set() of
\* _save_metadata, the return
CreateSave(t) ==
  /\ task[t].pc = "save"
  /\ LET r == create(store, task[t].shape, MaxChunk, task[t].fill_value,
                     task[t].attributes, TRUE)
     IN  /\ store' = r.store
         /\ instances' = Append(instances, [metadata |-> r.metadata])
         /\ task' = [task EXCEPT ![t].pc = "done", ![t].metadata = r.metadata]
  /\ UNCHANGED <<self, result, last, ref, writer, pipe, wb>>

NextCreate ==
  \E t \in Tasks : CreateBegin(t) \/ CreateExists(t) \/ CreateSave(t)

SpecCreate == InitCreate /\ [][NextCreate]_vars

\* the create calls that have returned an array
Succeeded == { t \in Tasks : task[t].pc = "done" }

\* every create call made so far passed exists_ok = false
AllExclusive == \A t \in Tasks : task[t].pc # "idle" => ~task[t].exists_ok

\* C21. Create is exclusive under concurrency.  When two create calls
\* with exists_ok = false run concurrently on a store path that holds no
\* metadata key at first, at most one of them succeeds, and the metadata
\* document that a successful create wrote stays under zarr.json: the
\* other call does not overwrite it.
C21_CreateExclusive ==
  AllExclusive =>
    /\ Cardinality(Succeeded) <= 1
    /\ \A t \in Succeeded : StoreGet(store, ZARR_JSON) = to_bytes(task[t].metadata)

\* --------------------------------------- metadata calls on a full array
\* create, resize and update_attributes calls, on every object made so
\* far, on an array that holds data: the store has chunk keys.
InitAttrs ==
  \E shape \in Shapes, fill_value \in Vals :
    \E array \in Arrays(shape) :
      LET metadata == [shape |-> shape, data_type |-> "bool",
                       chunk_shape |-> MaxChunk, fill_value |-> fill_value,
                       codecs |-> DefaultCodecs, attributes |-> <<>>]
      IN  /\ store = StoreOf(metadata, array)
          /\ instances = <<[metadata |-> metadata]>>
          /\ result = Returned(1)
          /\ last = MetaCall("create", 0, FALSE)
          /\ self = None /\ ref = None
          /\ task = [t \in Tasks |-> IdleTask] /\ writer = <<>>
          /\ pipe = IdlePipe /\ wb = IdleWrite

SpecAttrs == InitAttrs /\ [][NextMeta]_vars

\* the metadata document in the store
Document(s) == StoreGet(s, ZARR_JSON)

\* the chunk keys of a store with what they hold
Chunks(s) == [key \in ChunkKeys(s) |-> s[key]]

\* the object a call is made on holds the metadata that is in the store
Current(h) == to_bytes(instances[h].metadata) = Document(store)

\* C22 as stated.  update_attributes changes only the attributes of the
\* persisted document: on whatever object it is called, an object obtained
\* before a later resize among them, every field of the document under
\* zarr.json other than the attributes is after the call what it was
\* before, and no chunk key is set or deleted.
C22_OnlyAttributesChange ==
  [][last'.op = "update_attributes" =>
       /\ Document(store') =
            [Document(store) EXCEPT !.attributes = Document(store').attributes]
       /\ Chunks(store') = Chunks(store)]_vars

\* C22 as amended.  After update_attributes the document under zarr.json
\* is the metadata of the object the call was made on, with the
\* attributes replaced: every other field is that object's, so it is what
\* the store held before when the object holds the stored metadata, and
\* the object's own shape when the object was obtained before a later
\* resize.  No chunk key is set or deleted.
C22_AttributesOfInstance ==
  [][last'.op = "update_attributes" =>
       LET of_instance == to_bytes(instances[last'.handle].metadata)
       IN  /\ Document(store') =
                [of_instance EXCEPT !.attributes = Document(store').attributes]
           /\ Current(last'.handle) =>
                Document(store') =
                  [Document(store) EXCEPT !.attributes = Document(store').attributes]
           /\ Chunks(store') = Chunks(store)]_vars

\* update_attributes on the first object, after a second object of a
\* smaller shape was obtained from it: the document has the first shape
\* again, chunks are in the store, and a chunk outside the smaller grid
\* is not
C22_Witness ==
  /\ last.op = "update_attributes" /\ last.handle = 1
  /\ Len(instances) = 3
  /\ instances[2].metadata.shape < instances[1].metadata.shape
  /\ instances[2].metadata = [instances[1].metadata EXCEPT
                               !.shape = instances[2].metadata.shape]
  /\ ~Current(2)
  /\ Document(store).shape = instances[1].metadata.shape
  /\ Document(store).attributes # instances[1].metadata.attributes
  /\ ChunkKeys(store) # {}
  /\ \E key \in ResizeDeleted(instances[1].metadata, instances[2].metadata.shape) :
       ~StoreExists(store, key)

\* ------------------------------------------- growth after a shrink
\* setitem and resize calls on one array, each resize made on the object
\* the call before returned; instances keeps every object returned, so
\* every shape the array has had.  No dense copy of the array is kept
\* (ref is None), and of a setitem call only its name.
InitGrow ==
  \E shape \in Shapes, chunk_shape \in ChunkShapes, fill_value \in Vals :
    LET metadata == [shape |-> shape, data_type |-> "bool",
                     chunk_shape |-> chunk_shape, fill_value |-> fill_value,
                     codecs |-> DefaultCodecs, attributes |-> <<>>]
    IN  /\ self = [metadata |-> metadata]
        /\ store = StoreSet(<<>>, ZARR_JSON, to_bytes(metadata))
        /\ result = None
        /\ last = Call("create", Slice(0, 0), None, shape, FALSE)
        /\ ref = None
        /\ task = [t \in Tasks |-> IdleTask]
        /\ writer = <<>>
        /\ pipe = IdlePipe
        /\ instances = <<[metadata |-> metadata]>>
        /\ wb = IdleWrite

\* await array.setitem(selection, value) on the object in hand; the
\* values are the uniform ones, which in sequence make every array
SetItemInstance ==
  \E selection \in Selections(self.metadata.shape), v \in Vals :
    LET value == Full(IndexerShape(selection, self.metadata.shape), v)
    IN
      /\ store' = setitem(self.metadata, selection, value, store)
      /\ result' = None
      /\ last' = Call("setitem", Slice(0, 0), None, self.metadata.shape, FALSE)
      /\ UNCHANGED <<self, ref, task, writer, pipe, instances, wb>>

\* array = await array.resize(new_shape, delete_outside_chunks), the
\* returned object kept beside the earlier ones
ResizeInstance ==
  \E new_shape \in Shapes, delete_outside_chunks \in BOOLEAN :
    LET r   == resize(self.metadata, new_shape, delete_outside_chunks, store)
        new == replace(instances, Len(instances), r.metadata)
    IN  /\ Len(instances) < MaxInstances
        /\ store' = r.store
        /\ instances' = new.objects
        /\ self' = new.objects[new.handle]
        /\ result' = None
        /\ last' = Call("resize", Slice(0, 0), None, self.metadata.shape,
                        delete_outside_chunks)
        /\ UNCHANGED <<ref, task, writer, pipe, wb>>

NextGrow == SetItemInstance \/ ResizeInstance

SpecGrow == InitGrow /\ [][NextGrow]_vars

\* the largest shape the array had before the last resize
Extent ==
  LET before == { instances[h].metadata.shape : h \in 1..(Len(instances) - 1) }
  IN  CHOOSE n \in before : \A m \in before : m <= n

\* what getitem of the whole array returns on the object in hand
Read == getitem(self.metadata, WholeArray, store)

\* C23 as stated.  Growth exposes fill values: when a resize enlarges the
\* array, after any setitem and resize calls before it, an earlier shrink
\* among them, getitem on the returned object returns fill_value for
\* every element outside the shape the array had before that resize.
C23_GrowthExposesFill ==
  (last.op = "resize" /\ last.shape < self.metadata.shape) =>
    \A p \in (last.shape + 1)..self.metadata.shape : Read[p] = Fill

\* C23 as amended.  When a resize enlarges the array, getitem on the
\* returned object returns fill_value for every element outside every
\* shape the array has had before that resize.
C23_GrowthBeyondExtent ==
  (last.op = "resize" /\ last.shape < self.metadata.shape) =>
    \A p \in (Extent + 1)..self.metadata.shape : Read[p] = Fill

\* the array was shrunk and then enlarged beyond its first shape: an
\* element of the first shape that the shrink cut off is back with a
\* value other than fill_value, the elements beyond the first shape are
\* fill_value
C23_Witness ==
  /\ last.op = "resize" /\ Len(instances) = 3
  /\ last.shape < Extent /\ Extent < self.metadata.shape
  /\ \E p \in (last.shape + 1)..Extent : Read[p] # Fill
====
